---- MODULE Spec2Model ----
(***************************************************************************)
(* The tap/click activation state machine of core/src/utils/tap-click.ts  *)
(* (startTapClick) as a state machine.  One action per document listener  *)
(* and per timer callback; the helper functions of the closure are         *)
(* operators on a record of the closure's variables, composed exactly as   *)
(* the handlers call them.                                                 *)
(*                                                                         *)
(* Time: `now' is the clock read by Date.now() and by now(ev).  A timer    *)
(* created by setTimeout(f, d) is a handle [kind, el, at] with             *)
(* at = now + d, kept in `timers' until it fires or is cleared.  A timer   *)
(* fires when it is due: the clock does not pass `at' while the timer is   *)
(* pending, and its callback runs in any order with the events that        *)
(* arrive at that instant.                                                 *)
(*                                                                         *)
(* Pointer coordinates (pointerCoord) are passed through to addRipple and  *)
(* decide nothing; they are left out.                                      *)
(*                                                                         *)
(* The accordion of core/src/components/accordion/accordion.tsx is a       *)
(* second, independent state machine (AccordionSpec): its lifecycle        *)
(* callbacks, its click handler and the ionChange of its group.  Each      *)
(* specification runs one of the two and leaves the other as created.      *)
(***************************************************************************)
EXTENDS Integers, FiniteSets, Sequences, TLC

\* ------------------------------------------------------------ constants
ACTIVATED == "activated"
ADD_ACTIVATED_DEFERS == 200
CLEAR_STATE_DEFERS == 200
MOUSE_WAIT == 2500

\* ------------------------------------------------------------ bounds
\* The clock advances in steps of Tick, half an activation delay, so that
\* an event can fall strictly inside a delay, up to MaxTicks steps; one idle
\* period of MOUSE_WAIT may pass besides (see Idle).
Tick == ADD_ACTIVATED_DEFERS \div 2
MaxTicks == 3
MaxTime == MaxTicks * Tick
\* The count of disposal calls on one ripple saturates here.
MaxRemoveCalls == 2
\* The accordion group keeps this many toggle requests.
MaxRequests == 2

\* ------------------------------------------------------------ the document
\* `undefined' of the source.
None == "undefined"

\* Three activatable elements (I also carries ion-activatable-instant), a
\* plain element P, and a span S inside A.
Activatable == {"A", "B", "I"}

\* The classes of each node that the program reads but never changes.
StaticClasses(n) ==
  CASE n = "A" -> {"ion-activatable"}
    [] n = "B" -> {"ion-activatable"}
    [] n = "I" -> {"ion-activatable", "ion-activatable-instant"}
    [] OTHER -> {}

\* ev.composedPath() of an event on each possible innermost target.
Paths ==
  { <<"S", "A", "body", "html", "document", "window">>,
    <<"B", "body", "html", "document", "window">>,
    <<"I", "body", "html", "document", "window">>,
    <<"P", "body", "html", "document", "window">> }

\* An ion-ripple-effect with an addRipple method: inside A's shadow root and
\* among I's light-DOM children; B hosts none.
ShadowRipple(el) == IF el = "A" THEN "ripple-A" ELSE None
LightRipple(el) == IF el = "I" THEN "ripple-I" ELSE None

\* ------------------------------------------------------------ state
VARIABLES
  now,            \* the clock: Date.now() and now(ev)
  animated,       \* config.getBoolean('animated', true)
  rippleEffect,   \* config.getBoolean('rippleEffect', true)
  stopping,       \* the application has handlers that call ev.stopPropagation()
  lastTouch,
  lastActivated,
  cancelled,
  scrolling,
  activatableEle,
  activeRipple,   \* the ripple whose disposal promise is held, or None
  removeCalls,    \* how often the held ripple's disposal was invoked (0, 1, 2 = more than once)
  activeDefer,    \* the handle of the activation timer, or NoTimer
  clearDefers,    \* the WeakMap: element -> handle of its deferred-clear timer
  classList,      \* per activatable element: whether it carries each dynamic class
  timers,         \* the pending timers of the event loop
  thrown,         \* the last handler ended by throwing 'internal error'
  ev,             \* the event last dispatched, as its listener left it
  found,          \* history: the slot, and whether its timer was pending, as that listener found them
  markedAt,       \* history: per element that carries the marker, the time it was applied
  \* One ion-accordion (components/accordion/accordion.tsx) and the group
  \* around it.
  expanded,           \* @State() expanded
  value,              \* @Prop() value, or None
  accordionGroupEl,   \* the group found at the last connect, or None
  connected,          \* the accordion is in the document
  inGroup,            \* el.closest('ion-accordion-group') finds a group
  listening,          \* updateState is a listener of the group's ionChange
  groupValue,         \* accordionGroup.value
  requests,           \* the calls of requestAccordionToggle the group received
  call                \* the method of the accordion that ran last

tapClickVars ==
  <<now, animated, rippleEffect, stopping, lastTouch, lastActivated, cancelled,
    scrolling, activatableEle, activeRipple, removeCalls, activeDefer,
    clearDefers, classList, timers, thrown, ev, found, markedAt>>

accordionVars ==
  <<expanded, value, accordionGroupEl, connected, inGroup, listening,
    groupValue, requests, call>>

vars == <<tapClickVars, accordionVars>>

NoTimer == [kind |-> "none", el |-> None, at |-> 0]
NotFound == [slot |-> None, pending |-> FALSE]
NoEvent == [type |-> "none", path |-> <<>>, cancelable |-> FALSE,
            defaultPrevented |-> FALSE, propagationStopped |-> FALSE]

\* The closure's variables, the DOM's and the event loop's as one record,
\* which the helpers transform; ev is the event being dispatched.
State(e) ==
  [lastTouch |-> lastTouch, lastActivated |-> lastActivated,
   cancelled |-> cancelled, scrolling |-> scrolling,
   activatableEle |-> activatableEle, activeRipple |-> activeRipple,
   removeCalls |-> removeCalls, activeDefer |-> activeDefer,
   clearDefers |-> clearDefers, classList |-> classList,
   timers |-> timers, thrown |-> FALSE, ev |-> e]

Commit(s) ==
  /\ lastTouch' = s.lastTouch
  /\ lastActivated' = s.lastActivated
  /\ cancelled' = s.cancelled
  /\ scrolling' = s.scrolling
  /\ activatableEle' = s.activatableEle
  /\ activeRipple' = s.activeRipple
  /\ removeCalls' = s.removeCalls
  /\ activeDefer' = s.activeDefer
  /\ clearDefers' = s.clearDefers
  /\ classList' = s.classList
  /\ timers' = s.timers
  /\ thrown' = s.thrown
  /\ ev' = s.ev
  /\ found' = IF s.ev = NoEvent THEN NotFound
               ELSE [slot |-> activatableEle, pending |-> activeDefer \in timers]
  /\ markedAt' = [e \in Activatable |->
                    IF ACTIVATED \notin s.classList[e] THEN 0
                    ELSE IF ACTIVATED \in classList[e] THEN markedAt[e]
                    ELSE now]

\* ------------------------------------------------------------ helpers
Min(a, b) == IF a < b THEN a ELSE b

\* el.classList.contains(cls)
contains(s, el, cls) == cls \in StaticClasses(el) \cup s.classList[el]

isInstant(el) == "ion-activatable-instant" \in StaticClasses(el)

\* The first index i < path.length - 2 whose element is activatable.
RECURSIVE scanPath(_, _)
scanPath(path, i) ==
  IF i > Len(path) - 2 THEN None
  ELSE IF "ion-activatable" \in StaticClasses(path[i]) THEN path[i]
  ELSE scanPath(path, i + 1)

\* ev.target.closest('.ion-activatable'): the first activatable element
\* among the target and its ancestors (document and window are no elements).
RECURSIVE closest(_, _)
closest(path, i) ==
  IF i > Len(path) THEN None
  ELSE IF path[i] \notin {"document", "window"}
          /\ "ion-activatable" \in StaticClasses(path[i]) THEN path[i]
  ELSE closest(path, i + 1)

\* composed: whether the platform gives the event a composedPath method.
getActivatableTarget(e, composed) ==
  IF composed THEN scanPath(e.path, 1) ELSE closest(e.path, 1)

getRippleEffect(el) ==
  IF ShadowRipple(el) # None THEN ShadowRipple(el) ELSE LightRipple(el)

\* useRippleEffect with either flag sufficing.
useRippleEffect_Either == animated \/ rippleEffect

useRippleEffect == animated /\ rippleEffect

clearTimeout(s, h) == [s EXCEPT !.timers = @ \ {h}]

addActivated(s, el) ==
  LET s1 == [s EXCEPT !.lastActivated = now,
                      !.classList[el] = @ \cup {ACTIVATED}]
      ripple == IF useRippleEffect THEN getRippleEffect(el) ELSE None
  IN IF ripple # None
       THEN [s1 EXCEPT !.activeRipple = ripple, !.removeCalls = 0]
       ELSE s1

\* removeActivated without the !isInstant(active) test.
removeActivated_NoInstantTest(s, smooth) ==
  LET s1 == IF s.activeRipple # None
              THEN [s EXCEPT !.removeCalls = Min(@ + 1, MaxRemoveCalls)]
              ELSE s
      active == s.activatableEle
      time == CLEAR_STATE_DEFERS - now + s.lastActivated
      deferId == [kind |-> "clear", el |-> active, at |-> now + CLEAR_STATE_DEFERS]
  IN IF active = None THEN s1
     ELSE IF smooth /\ time > 0
       THEN [s1 EXCEPT !.timers = @ \cup {deferId},
                       !.clearDefers[active] = deferId]
       ELSE [s1 EXCEPT !.classList[active] = @ \ {ACTIVATED}]

removeActivated(s, smooth) ==
  LET s1 == IF s.activeRipple # None
              THEN [s EXCEPT !.removeCalls = Min(@ + 1, MaxRemoveCalls)]
              ELSE s
      active == s.activatableEle
      time == CLEAR_STATE_DEFERS - now + s.lastActivated
      deferId == [kind |-> "clear", el |-> active, at |-> now + CLEAR_STATE_DEFERS]
  IN IF active = None THEN s1
     ELSE IF smooth /\ time > 0 /\ ~isInstant(active)
       THEN [s1 EXCEPT !.timers = @ \cup {deferId},
                       !.clearDefers[active] = deferId]
       ELSE [s1 EXCEPT !.classList[active] = @ \ {ACTIVATED}]

\* deactivateSelected without smoothing (removeActivated(false)).
deactivateSelected_Abrupt(s) ==
  LET cur == s.activatableEle IN
  IF cur = None THEN s
  ELSE IF s.clearDefers[cur] # NoTimer THEN [s EXCEPT !.thrown = TRUE]
  ELSE removeActivated(
         IF ~contains(s, cur, ACTIVATED) THEN addActivated(s, cur) ELSE s,
         FALSE)

\* Lines 88-97: deactivate the element that owns the slot.
deactivateSelected(s) ==
  LET cur == s.activatableEle IN
  IF cur = None THEN s
  ELSE IF s.clearDefers[cur] # NoTimer THEN [s EXCEPT !.thrown = TRUE]
  ELSE removeActivated(
         IF ~contains(s, cur, ACTIVATED) THEN addActivated(s, cur) ELSE s,
         TRUE)

\* The activate part without clearTimeout(deferId) and clearDefers.delete(el).
activate_KeepsDeferredClear(s, el) ==
  LET delay == IF isInstant(el) THEN 0 ELSE ADD_ACTIVATED_DEFERS
      h == [kind |-> "activate", el |-> el, at |-> now + delay]
  IN [s EXCEPT !.classList[el] = @ \ {ACTIVATED},
               !.activeDefer = h,
               !.timers = @ \cup {h}]

\* The activate part that cancels the deferred-clear timer but leaves its
\* entry in the registry (no clearDefers.delete(el)).
activate_KeepsEntry(s, el) ==
  LET deferId == s.clearDefers[el]
      s1 == IF deferId # NoTimer THEN clearTimeout(s, deferId) ELSE s
      delay == IF isInstant(el) THEN 0 ELSE ADD_ACTIVATED_DEFERS
      h == [kind |-> "activate", el |-> el, at |-> now + delay]
  IN [s1 EXCEPT !.classList[el] = @ \ {ACTIVATED},
                !.activeDefer = h,
                !.timers = @ \cup {h}]

\* Lines 99-113: schedule the activation of el.
activate(s, el) ==
  LET deferId == s.clearDefers[el]
      s1 == IF deferId # NoTimer
              THEN [clearTimeout(s, deferId) EXCEPT !.clearDefers[el] = NoTimer]
              ELSE s
      delay == IF isInstant(el) THEN 0 ELSE ADD_ACTIVATED_DEFERS
      h == [kind |-> "activate", el |-> el, at |-> now + delay]
  IN [s1 EXCEPT !.classList[el] = @ \ {ACTIVATED},
                !.activeDefer = h,
                !.timers = @ \cup {h}]

\* setActivatedElement that records a new target only when it deactivates
\* (activatableEle = el is skipped for a target, left to the timer).
setActivatedElement_LateOwnership(s, el) ==
  IF el # None /\ el = s.activatableEle THEN s
  ELSE
    LET s1 == [clearTimeout(s, s.activeDefer) EXCEPT !.activeDefer = NoTimer]
        s2 == deactivateSelected(s1)
        s3 == IF el # None THEN activate(s2, el) ELSE s2
    IN IF s2.thrown THEN s2
       ELSE IF el # None THEN s3 ELSE [s3 EXCEPT !.activatableEle = el]

\* setActivatedElement that forgets the handle and leaves the timer running
\* (activeDefer = undefined without clearTimeout(activeDefer)).
setActivatedElement_NoClearTimeout(s, el) ==
  IF el # None /\ el = s.activatableEle THEN s
  ELSE
    LET s1 == [s EXCEPT !.activeDefer = NoTimer]
        s2 == deactivateSelected(s1)
        s3 == IF el # None THEN activate(s2, el) ELSE s2
    IN IF s2.thrown THEN s2 ELSE [s3 EXCEPT !.activatableEle = el]

setActivatedElement(s, el) ==
  IF el # None /\ el = s.activatableEle THEN s
  ELSE
    LET s1 == [clearTimeout(s, s.activeDefer) EXCEPT !.activeDefer = NoTimer]
        s2 == deactivateSelected(s1)
        s3 == IF el # None THEN activate(s2, el) ELSE s2
    IN IF s2.thrown THEN s2 ELSE [s3 EXCEPT !.activatableEle = el]

\* cancelActive that deactivates with smoothing (removeActivated(true)).
cancelActive_Smooth(s) ==
  LET s1 == [clearTimeout(s, s.activeDefer) EXCEPT !.activeDefer = NoTimer]
      s2 == IF s1.activatableEle # None
              THEN [removeActivated(s1, TRUE) EXCEPT !.activatableEle = None]
              ELSE s1
  IN [s2 EXCEPT !.cancelled = TRUE]

\* cancelActive without its clearTimeout(activeDefer).
cancelActive_NoClearTimeout(s) ==
  LET s1 == [s EXCEPT !.activeDefer = NoTimer]
      s2 == IF s1.activatableEle # None
              THEN [removeActivated(s1, FALSE) EXCEPT !.activatableEle = None]
              ELSE s1
  IN [s2 EXCEPT !.cancelled = TRUE]

cancelActive(s) ==
  LET s1 == [clearTimeout(s, s.activeDefer) EXCEPT !.activeDefer = NoTimer]
      s2 == IF s1.activatableEle # None
              THEN [removeActivated(s1, FALSE) EXCEPT !.activatableEle = None]
              ELSE s1
  IN [s2 EXCEPT !.cancelled = TRUE]

\* pointerDown without the test of scrolling.
pointerDown_NoScrollGuard(s, composed) ==
  IF s.activatableEle # None THEN s
  ELSE setActivatedElement([s EXCEPT !.cancelled = FALSE],
                           getActivatableTarget(s.ev, composed))

\* pointerDown without cancelled = false.
pointerDown_KeepCancelled(s, composed) ==
  IF s.activatableEle # None \/ s.scrolling THEN s
  ELSE setActivatedElement(s, getActivatableTarget(s.ev, composed))

\* pointerDown without the test of activatableEle.
pointerDown_NoSlotGuard(s, composed) ==
  IF s.scrolling THEN s
  ELSE setActivatedElement([s EXCEPT !.cancelled = FALSE],
                           getActivatableTarget(s.ev, composed))

pointerDown(s, composed) ==
  IF s.activatableEle # None \/ s.scrolling THEN s
  ELSE setActivatedElement([s EXCEPT !.cancelled = FALSE],
                           getActivatableTarget(s.ev, composed))

pointerUp(s) ==
  IF s.scrolling THEN s
  ELSE LET s1 == setActivatedElement(s, None) IN
       IF ~s1.thrown /\ s1.cancelled /\ s1.ev.cancelable
         THEN [s1 EXCEPT !.ev.defaultPrevented = TRUE]
         ELSE s1

onBodyClick(s) ==
  IF s.cancelled \/ s.scrolling
    THEN [s EXCEPT !.ev.defaultPrevented = TRUE, !.ev.propagationStopped = TRUE]
    ELSE s

onTouchStart(s, composed) == pointerDown([s EXCEPT !.lastTouch = now], composed)

onTouchEnd(s) == pointerUp([s EXCEPT !.lastTouch = now])

\* onMouseDown with lastTouch <= t for lastTouch < t.
onMouseDown_AtMost(s, composed) ==
  LET t == now - MOUSE_WAIT IN
  IF s.lastTouch <= t THEN pointerDown(s, composed) ELSE s

onMouseDown(s, composed) ==
  LET t == now - MOUSE_WAIT IN
  IF s.lastTouch < t THEN pointerDown(s, composed) ELSE s

onMouseUp(s) ==
  LET t == now - MOUSE_WAIT IN
  IF s.lastTouch < t THEN pointerUp(s) ELSE s

\* The ionScrollStart listener without its call of cancelActive.
onScrollStart_NoCancel(s) == [s EXCEPT !.scrolling = TRUE]

onScrollStart(s) == cancelActive([s EXCEPT !.scrolling = TRUE])

onScrollEnd(s) == [s EXCEPT !.scrolling = FALSE]

\* The callback of the activation timer h (lines 109-112).
activeDeferCallback(s, h) ==
  [addActivated(s, h.el) EXCEPT !.activeDefer = NoTimer]

\* The callback of the deferred-clear timer without classList.remove.
clearDeferCallback_KeepsMarker(s, h) ==
  [s EXCEPT !.clearDefers[h.el] = NoTimer]

\* The callback of the deferred-clear timer without clearDefers.delete.
clearDeferCallback_KeepsEntry(s, h) ==
  [s EXCEPT !.classList[h.el] = @ \ {ACTIVATED}]

\* The callback of the deferred-clear timer h (lines 137-140).
clearDeferCallback(s, h) ==
  [s EXCEPT !.classList[h.el] = @ \ {ACTIVATED}, !.clearDefers[h.el] = NoTimer]

\* ------------------------------------------------------------ actions
Event(type, path, cancelable) ==
  [type |-> type, path |-> path, cancelable |-> cancelable,
   defaultPrevented |-> FALSE, propagationStopped |-> FALSE]

\* The third argument of doc.addEventListener for each event type: the
\* listeners of the three custom signals are registered without it.
Capture(type) ==
  CASE type = "click" -> TRUE
    [] type = "ionScrollStart" -> FALSE
    [] type = "ionScrollEnd" -> FALSE
    [] type = "ionGestureCaptured" -> FALSE
    [] type = "touchstart" -> TRUE
    [] type = "touchcancel" -> TRUE
    [] type = "touchend" -> TRUE
    [] type = "mousedown" -> TRUE
    [] type = "mouseup" -> TRUE

\* Whether the listener on the document runs for an event on a descendant:
\* a capturing listener runs before every handler below the document, a
\* listener of the bubbling phase only if no handler on the way up has
\* called stopPropagation.
Heard(type, stopped) == Capture(type) \/ ~stopped

\* What may become of an event of this type, as the application's handlers,
\* if it has such, call stopPropagation or not.
Outcomes(type) ==
  {Heard(type, stopped) : stopped \in IF stopping THEN BOOLEAN ELSE {FALSE}}

\* The state after the dispatch of s.ev: the one the listener leaves, or,
\* for an event stopped before it reached the document, the one before.
dispatch(s, heard, after) ==
  IF heard THEN after ELSE [s EXCEPT !.ev.propagationStopped = TRUE]

Fixed == UNCHANGED <<now, animated, rippleEffect, stopping, accordionVars>>

\* Events arrive during the first MaxTime time units (of each period, see
\* Idle); after that only the timers still pending run.
Arrives == (now % MOUSE_WAIT) <= MaxTime

\* The closure of startTapClick as it is created.
StartTapClick ==
  /\ now = 0
  /\ animated \in BOOLEAN
  /\ rippleEffect \in BOOLEAN
  /\ lastTouch = -MOUSE_WAIT * 10
  /\ lastActivated = 0
  /\ cancelled = FALSE
  /\ scrolling = FALSE
  /\ activatableEle = None
  /\ activeRipple = None
  /\ removeCalls = 0
  /\ activeDefer = NoTimer
  /\ clearDefers = [e \in Activatable |-> NoTimer]
  /\ classList = [e \in Activatable |-> {}]
  /\ timers = {}
  /\ thrown = FALSE
  /\ ev = NoEvent
  /\ found = NotFound
  /\ markedAt = [e \in Activatable |-> 0]

\* A document without an accordion.
NoAccordion ==
  /\ expanded = FALSE
  /\ value = None
  /\ accordionGroupEl = None
  /\ connected = FALSE
  /\ inGroup = FALSE
  /\ listening = FALSE
  /\ groupValue = [isArray |-> FALSE, items |-> <<None>>]
  /\ requests = <<>>
  /\ call = "none"

\* The application leaves the propagation of events alone (StoppingSpec has
\* the other case).
Init == StartTapClick /\ NoAccordion /\ stopping = FALSE

TouchStart(path, composed) ==
  /\ Arrives
  /\ \E heard \in Outcomes("touchstart") :
       LET s == State(Event("touchstart", path, TRUE))
       IN Commit(dispatch(s, heard, onTouchStart(s, composed)))
  /\ Fixed

TouchEnd(cancelable) ==
  /\ Arrives
  /\ \E heard \in Outcomes("touchend") :
       LET s == State(Event("touchend", <<>>, cancelable))
       IN Commit(dispatch(s, heard, onTouchEnd(s)))
  /\ Fixed

TouchCancel ==
  /\ Arrives
  /\ \E heard \in Outcomes("touchcancel") :
       LET s == State(Event("touchcancel", <<>>, FALSE))
       IN Commit(dispatch(s, heard, onTouchEnd(s)))
  /\ Fixed

MouseDown(path, composed) ==
  /\ Arrives
  /\ \E heard \in Outcomes("mousedown") :
       LET s == State(Event("mousedown", path, TRUE))
       IN Commit(dispatch(s, heard, onMouseDown(s, composed)))
  /\ Fixed

MouseUp ==
  /\ Arrives
  /\ \E heard \in Outcomes("mouseup") :
       LET s == State(Event("mouseup", <<>>, TRUE))
       IN Commit(dispatch(s, heard, onMouseUp(s)))
  /\ Fixed

Click ==
  /\ Arrives
  /\ \E heard \in Outcomes("click") :
       LET s == State(Event("click", <<>>, TRUE))
       IN Commit(dispatch(s, heard, onBodyClick(s)))
  /\ Fixed

ScrollStart ==
  /\ Arrives
  /\ \E heard \in Outcomes("ionScrollStart") :
       LET s == State(Event("ionScrollStart", <<>>, FALSE))
       IN Commit(dispatch(s, heard, onScrollStart(s)))
  /\ Fixed

ScrollEnd ==
  /\ Arrives
  /\ \E heard \in Outcomes("ionScrollEnd") :
       LET s == State(Event("ionScrollEnd", <<>>, FALSE))
       IN Commit(dispatch(s, heard, onScrollEnd(s)))
  /\ Fixed

GestureCaptured ==
  /\ Arrives
  /\ \E heard \in Outcomes("ionGestureCaptured") :
       LET s == State(Event("ionGestureCaptured", <<>>, FALSE))
       IN Commit(dispatch(s, heard, cancelActive(s)))
  /\ Fixed

\* The event loop runs a timer that is due and forgets it.
ActiveDeferFire(h) ==
  /\ h \in timers /\ h.kind = "activate" /\ h.at <= now
  /\ Commit(activeDeferCallback(clearTimeout(State(NoEvent), h), h))
  /\ Fixed

ClearDeferFire(h) ==
  /\ h \in timers /\ h.kind = "clear" /\ h.at <= now
  /\ Commit(clearDeferCallback(clearTimeout(State(NoEvent), h), h))
  /\ Fixed

\* Time passes, up to the next instant at which a timer is due.
Advance ==
  /\ (now % MOUSE_WAIT) + Tick <= MaxTime \/ timers # {}
  /\ \A h \in timers : h.at >= now + Tick
  /\ now' = now + Tick
  /\ Commit(State(NoEvent))
  /\ UNCHANGED <<animated, rippleEffect, stopping, accordionVars>>

\* Nothing happens for MOUSE_WAIT time units (once, with no timer pending).
Idle ==
  /\ timers = {}
  /\ now < MOUSE_WAIT
  /\ now' = now + MOUSE_WAIT
  /\ Commit(State(NoEvent))
  /\ UNCHANGED <<animated, rippleEffect, stopping, accordionVars>>

Next ==
  \/ \E path \in Paths, composed \in BOOLEAN : TouchStart(path, composed)
  \/ \E cancelable \in BOOLEAN : TouchEnd(cancelable)
  \/ TouchCancel
  \/ \E path \in Paths, composed \in BOOLEAN : MouseDown(path, composed)
  \/ MouseUp
  \/ Click
  \/ ScrollStart
  \/ ScrollEnd
  \/ GestureCaptured
  \/ \E h \in timers : ActiveDeferFire(h)
  \/ \E h \in timers : ClearDeferFire(h)
  \/ Advance
  \/ Idle

Spec == Init /\ [][Next]_vars

\* The program as configured by default and driven by touch input alone
\* (a mouse event that passes the MOUSE_WAIT filter runs the same pointerDown
\* and pointerUp, a click changes no state).
DefaultInit == Init /\ animated /\ rippleEffect

TouchNext ==
  \/ \E path \in Paths, composed \in BOOLEAN : TouchStart(path, composed)
  \/ \E cancelable \in BOOLEAN : TouchEnd(cancelable)
  \/ TouchCancel
  \/ ScrollStart
  \/ ScrollEnd
  \/ GestureCaptured
  \/ \E h \in timers : ActiveDeferFire(h)
  \/ \E h \in timers : ClearDeferFire(h)
  \/ Advance

\* The program as configured by default, in an application whose handlers
\* on the elements below the document may call stopPropagation.
StoppingInit ==
  StartTapClick /\ animated /\ rippleEffect /\ NoAccordion /\ stopping = TRUE

StoppingSpec == StoppingInit /\ [][Next]_vars

\* The event loop: time does not stop while the clock may advance, and a
\* timer that is due runs.
FairSpec ==
  /\ DefaultInit /\ [][TouchNext]_vars
  /\ SF_vars(Advance)
  /\ WF_vars(\E h \in timers : ActiveDeferFire(h))
  /\ WF_vars(\E h \in timers : ClearDeferFire(h))

\* ------------------------------------------------------------ the accordion
\* The values of a group: undefined or one value (items holds it), or an
\* array of values.
AccordionValues == {"a", "b"}
GroupValues ==
  {[isArray |-> FALSE, items |-> <<v>>] : v \in AccordionValues \cup {None}}
  \cup {[isArray |-> TRUE, items |-> q] :
          q \in {<<>>, <<"a">>, <<"b">>, <<"a", "b">>}}

\* Array.prototype.includes
includes(array, x) == \E i \in 1..Len(array) : array[i] = x

\* updateState that compares with === whatever the group's value is.
updateState_EqualityOnly(cur, accordionGroup, accordionValue, v) ==
  IF accordionValue = None \/ accordionGroup = None THEN cur
  ELSE ~v.isArray /\ v.items[1] = accordionValue

\* The value updateState leaves in this.expanded (cur: the one before),
\* where v is accordionGroup.value.
updateState(cur, accordionGroup, accordionValue, v) ==
  IF accordionValue = None \/ accordionGroup = None THEN cur
  ELSE IF v.isArray THEN includes(v.items, accordionValue)
  ELSE v.items[1] = accordionValue

TapClickUnchanged == UNCHANGED tapClickVars

connectedCallback ==
  /\ ~connected
  /\ connected' = TRUE
  /\ LET group == IF inGroup THEN "ion-accordion-group" ELSE None IN
       /\ accordionGroupEl' = group
       /\ expanded' = IF group # None
                        THEN updateState(expanded, group, value, groupValue)
                        ELSE expanded
       /\ listening' = (group # None)
  /\ call' = "connectedCallback"
  /\ UNCHANGED <<value, inGroup, groupValue, requests>>
  /\ TapClickUnchanged

disconnectedCallback ==
  /\ connected
  /\ connected' = FALSE
  /\ listening' = IF accordionGroupEl # None THEN FALSE ELSE listening
  /\ call' = "disconnectedCallback"
  /\ UNCHANGED <<expanded, value, accordionGroupEl, inGroup, groupValue, requests>>
  /\ TapClickUnchanged

\* A click on the header button of the accordion (rendered while the
\* accordion is in the document).
toggleExpanded ==
  /\ connected
  /\ Len(requests) < MaxRequests
  /\ requests' = IF accordionGroupEl # None
                   THEN Append(requests, [value |-> value, expand |-> ~expanded])
                   ELSE requests
  /\ call' = "toggleExpanded"
  /\ UNCHANGED <<expanded, value, accordionGroupEl, connected, inGroup,
                 listening, groupValue>>
  /\ TapClickUnchanged

\* The group takes the value v and emits ionChange, which runs updateState
\* if it is a listener.
GroupChange(v) ==
  /\ groupValue' = v
  /\ expanded' = IF listening
                   THEN updateState(expanded, accordionGroupEl, value, v)
                   ELSE expanded
  /\ call' = IF listening THEN "updateState" ELSE "none"
  /\ UNCHANGED <<value, accordionGroupEl, connected, inGroup, listening, requests>>
  /\ TapClickUnchanged

\* While it is out of the document the accordion is put into a group or
\* taken out of it.
Move ==
  /\ ~connected
  /\ inGroup' = ~inGroup
  /\ call' = "none"
  /\ UNCHANGED <<expanded, value, accordionGroupEl, connected, listening,
                 groupValue, requests>>
  /\ TapClickUnchanged

\* An accordion with or without a value, in a group or not, not yet
\* connected; the tap-click closure rests as created with the default
\* configuration.
AccordionInit ==
  /\ StartTapClick /\ animated /\ rippleEffect /\ stopping = FALSE
  /\ expanded = FALSE
  /\ value \in AccordionValues \cup {None}
  /\ accordionGroupEl = None
  /\ connected = FALSE
  /\ inGroup \in BOOLEAN
  /\ listening = FALSE
  /\ groupValue \in GroupValues
  /\ requests = <<>>
  /\ call = "none"

AccordionNext ==
  \/ connectedCallback
  \/ disconnectedCallback
  \/ toggleExpanded
  \/ \E v \in GroupValues : GroupChange(v)
  \/ Move

AccordionSpec == AccordionInit /\ [][AccordionNext]_vars

\* ------------------------------------------------------------ vocabulary of the properties
\* e carries the 'activated' marker class.
Marked(e) == ACTIVATED \in classList[e]

\* An activation timer for e is pending.
PendingActivation(e) == \E h \in timers : h.kind = "activate" /\ h.el = e

\* A deferred-clear timer for e is pending: e is fading out.
FadingOut(e) == \E h \in timers : h.kind = "clear" /\ h.el = e

\* Every listener leaves the event it was given in ev, and every step of a
\* timer or of the clock leaves NoEvent there: ev' names the listener that a
\* step runs, unless the event was stopped before it reached the document.
Dispatches(type) ==
  /\ ev'.type = type
  /\ Capture(type) \/ ~ev'.propagationStopped

\* The step is a pointer-down that reaches pointerDown with target e: a
\* touch-start, or a mouse-down that the MOUSE_WAIT filter lets through.
PointerDownOn(e) ==
  /\ \/ Dispatches("touchstart")
     \/ Dispatches("mousedown") /\ lastTouch < now - MOUSE_WAIT
  /\ getActivatableTarget(ev', TRUE) = e

\* The step is a pointer-up that reaches pointerUp.
PointerUpStep ==
  \/ Dispatches("touchend")
  \/ Dispatches("touchcancel")
  \/ Dispatches("mouseup") /\ lastTouch < now - MOUSE_WAIT

\* The step calls cancelActive.
CancelStep == Dispatches("ionScrollStart") \/ Dispatches("ionGestureCaptured")

\* ------------------------------------------------------------ C1
\* C1 as stated: at most one element in total carries the 'activated'
\* marker (fading out or not) or has a pending activation timer.
C1_Exclusive ==
  Cardinality({e \in Activatable : Marked(e) \/ PendingActivation(e)}) <= 1

\* C1, amended: at most one element in total either carries the 'activated'
\* marker without fading out (no deferred-clear timer pending for it) or has
\* a pending activation timer; elements that fade out through a
\* deferred-clear timer may carry the marker besides it.
C1_ExclusiveButFading ==
  Cardinality({e \in Activatable :
     (Marked(e) /\ ~FadingOut(e)) \/ PendingActivation(e)}) <= 1

\* An element fades out with the marker while another one is pending or marked.
C1_Witness ==
  \E a, b \in Activatable :
    /\ a # b
    /\ Marked(a) /\ FadingOut(a)
    /\ activatableEle = b
    /\ PendingActivation(b) \/ Marked(b)

\* ------------------------------------------------------------ C2
\* C2 as stated: a pointer-down on B while A owns the slot with its
\* activation timer still pending takes the activation away from A (A has
\* no pending timer and no slot any more, so it cannot receive the marker
\* from its press) and starts a fresh activation timer for B.
C2_SecondTargetTakesOver ==
  [][\A a, b \in Activatable :
       (a # b /\ activatableEle = a /\ PendingActivation(a) /\ PointerDownOn(b))
       => /\ ~PendingActivation(a)'
          /\ activatableEle' = b
          /\ activeDefer' \in timers'
          /\ activeDefer'.el = b
          /\ activeDefer'.at = now + (IF isInstant(b) THEN 0 ELSE ADD_ACTIVATED_DEFERS)
    ]_vars

\* C2, amended: a pointer-down on B while A owns the slot with its activation
\* timer still pending is ignored: A keeps the slot and its pending timer,
\* unchanged, and no activation timer for B is started.
C2_SecondTargetIgnored ==
  [][\A a, b \in Activatable :
       (a # b /\ activatableEle = a /\ PendingActivation(a) /\ PointerDownOn(b))
       => /\ activatableEle' = a
          /\ activeDefer' = activeDefer
          /\ activeDefer' \in timers'
          /\ ~PendingActivation(b)'
    ]_vars

\* A touch-start on B has just been dispatched while A was mid-delay.
C2_Witness ==
  /\ ev.type = "touchstart"
  /\ getActivatableTarget(ev, TRUE) = "B"
  /\ found = [slot |-> "A", pending |-> TRUE]
  /\ activatableEle = "A"
  /\ PendingActivation("A")

\* ------------------------------------------------------------ C9
\* C9: a pointer-down received while an element is activating changes
\* neither the slot, the activation timer, the registry, the pending timers,
\* the marker classes nor the cancelled flag; and an accepted pointer-down on
\* a target takes the slot for it in the same step, with its activation
\* timer still pending.
C9_PointerDownIgnoredWhileActivating ==
  [][
      /\ \A e \in Activatable \cup {None} :
            (activatableEle # None /\ PointerDownOn(e))
            => UNCHANGED <<activatableEle, activeDefer, timers, clearDefers,
                           classList, cancelled>>
      /\ \A e \in Activatable :
            (activatableEle = None /\ ~scrolling /\ PointerDownOn(e))
            => /\ activatableEle' = e
               /\ activeDefer' \in timers'
               /\ activeDefer'.el = e
    ]_vars

\* A mouse-down that passed the MOUSE_WAIT filter was dispatched on another
\* target than the one that owned, and owns, the slot.
C9_Witness ==
  /\ ev.type = "mousedown"
  /\ lastTouch < now - MOUSE_WAIT
  /\ found.slot \in Activatable
  /\ getActivatableTarget(ev, TRUE) \in Activatable \ {found.slot}
  /\ activatableEle = found.slot

\* ------------------------------------------------------------ C3
\* C3 as stated: a pointer-up that deactivates a non-instant element less
\* than CLEAR_STATE_DEFERS after lastActivated keeps the marker and schedules
\* its removal after the remaining duration, at lastActivated +
\* CLEAR_STATE_DEFERS; in every other case (duration elapsed, instant
\* element, or cancelActive's smooth = false) the marker is removed in the
\* step.  lastActivated is read after the step: a pointer-up that ends a
\* short tap applies the marker (and sets lastActivated) itself.
C3_RemovedAfterRemainingDuration ==
  [][\A e \in Activatable :
       /\ (activatableEle = e /\ ~scrolling /\ PointerUpStep)
          => IF ~isInstant(e) /\ now - lastActivated' < CLEAR_STATE_DEFERS
               THEN /\ Marked(e)'
                    /\ clearDefers'[e] \in timers'
                    /\ clearDefers'[e].at = lastActivated' + CLEAR_STATE_DEFERS
               ELSE /\ ~Marked(e)'
                    /\ clearDefers'[e] = NoTimer
       /\ (activatableEle = e /\ CancelStep)
          => /\ ~Marked(e)'
             /\ clearDefers'[e] = NoTimer
    ]_vars

\* ------------------------------------------------------------ C4
\* C4: cancelActive while e is activating leaves no activation timer, e
\* without the marker and without a deferred-clear timer, the slot empty and
\* cancelled set; cancelled stays set until a pointer-down is accepted, and
\* a click that arrives while it is set is suppressed.
C4_CancelMidActivation ==
  [][
      /\ \A e \in Activatable :
            (activatableEle = e /\ CancelStep)
            => /\ activeDefer' = NoTimer
               /\ \A h \in timers' : h.kind # "activate"
               /\ ~Marked(e)'
               /\ clearDefers'[e] = NoTimer
               /\ ~FadingOut(e)'
               /\ activatableEle' = None
               /\ cancelled'
      /\ (cancelled /\ ~cancelled')
            => /\ activatableEle = None /\ ~scrolling
               /\ \E e \in Activatable \cup {None} : PointerDownOn(e)
      /\ (cancelled /\ Dispatches("click"))
            => ev'.defaultPrevented /\ ev'.propagationStopped
    ]_vars

\* ionGestureCaptured has just cancelled A, whose activation timer had fired
\* (the marker was applied): the marker is gone and nothing is pending for A.
C4_Witness ==
  /\ ev.type = "ionGestureCaptured"
  /\ found = [slot |-> "A", pending |-> FALSE]
  /\ now - lastActivated < CLEAR_STATE_DEFERS
  /\ ~Marked("A")
  /\ cancelled

\* ------------------------------------------------------------ C5
\* C5: ionScrollStart while e owns the slot with its activation timer
\* pending empties the slot, leaves no activation timer for e and e without
\* the marker; an element receives the marker only while it owns the slot
\* (from its own timer or from the pointer-up), and an empty slot is taken
\* only by a later accepted pointer-down: e gets no marker from that press.
C5_ScrollStartMidDelay ==
  [][
      /\ \A e \in Activatable :
            (activatableEle = e /\ PendingActivation(e) /\ Dispatches("ionScrollStart"))
            => /\ activatableEle' = None
               /\ ~PendingActivation(e)'
               /\ ~Marked(e)'
      /\ \A e \in Activatable :
            (~Marked(e) /\ Marked(e)')
            => /\ activatableEle = e
               /\ \/ PointerUpStep
                  \/ ev' = NoEvent /\ PendingActivation(e) /\ ~PendingActivation(e)'
      /\ (activatableEle = None /\ activatableEle' # None)
            => /\ ~scrolling
               /\ PointerDownOn(activatableEle')
    ]_vars

\* ionScrollStart has just been dispatched while A was mid-delay.
C5_Witness ==
  /\ ev.type = "ionScrollStart"
  /\ found = [slot |-> "A", pending |-> TRUE]
  /\ activatableEle = None
  /\ ~Marked("A")
  /\ ~PendingActivation("A")

\* ------------------------------------------------------------ C6
\* C6: while scrolling is true the slot is empty and no activation timer is
\* pending; a pointer-down or pointer-up dispatched while scrolling changes
\* neither the slot, the timers, the registry, the marker classes nor the
\* cancelled flag.
C6_NoActivationWhileScrolling ==
  /\ [](scrolling => /\ activatableEle = None
                     /\ activeDefer = NoTimer
                     /\ \A h \in timers : h.kind # "activate")
  /\ [][(scrolling /\ (Dispatches("touchstart") \/ Dispatches("mousedown")
                        \/ Dispatches("touchend") \/ Dispatches("touchcancel")
                        \/ Dispatches("mouseup")))
        => UNCHANGED <<activatableEle, activeDefer, timers, clearDefers,
                       classList, cancelled, scrolling>>
       ]_vars

\* A touch-start on A has just been dispatched while scrolling.
C6_Witness ==
  /\ scrolling
  /\ ev.type = "touchstart"
  /\ getActivatableTarget(ev, TRUE) = "A"
  /\ activatableEle = None
  /\ timers = {}

\* ------------------------------------------------------------ C7
\* C7: every touch listener sets lastTouch to the event's time, and a
\* mouse-down or mouse-up dispatched no later than MOUSE_WAIT after lastTouch
\* changes nothing but the record of the event itself: no activation is
\* started or ended by it.
C7_MouseAfterTouchNotForwarded ==
  [][
      /\ (Dispatches("touchstart") \/ Dispatches("touchend") \/ Dispatches("touchcancel"))
            => lastTouch' = now
      /\ ((Dispatches("mousedown") \/ Dispatches("mouseup"))
            /\ now - lastTouch <= MOUSE_WAIT)
            => UNCHANGED <<lastTouch, lastActivated, cancelled, scrolling,
                           activatableEle, activeRipple, removeCalls,
                           activeDefer, clearDefers, classList, timers>>
    ]_vars

\* A mouse-down on an activatable target was dispatched exactly MOUSE_WAIT
\* after the last touch, with the slot free and no scroll: only the filter
\* kept it from starting an activation.
C7_Witness ==
  /\ ev.type = "mousedown"
  /\ getActivatableTarget(ev, TRUE) \in Activatable
  /\ now - lastTouch = MOUSE_WAIT
  /\ found.slot = None
  /\ ~scrolling
  /\ activatableEle = None

\* ------------------------------------------------------------ C8
\* C8: an accepted pointer-down on an instant element schedules its
\* activation timer with zero delay; a pointer-up that deactivates an instant
\* element leaves it without the marker; and no deferred-clear timer is ever
\* registered or pending for an instant element.
C8_InstantElement ==
  /\ [](\A e \in Activatable :
          isInstant(e) => clearDefers[e] = NoTimer /\ ~FadingOut(e))
  /\ [][\A e \in Activatable :
          isInstant(e) =>
            /\ (activatableEle = None /\ ~scrolling /\ PointerDownOn(e))
                 => /\ activeDefer' \in timers'
                    /\ activeDefer'.el = e
                    /\ activeDefer'.at = now
            /\ (activatableEle = e /\ ~scrolling /\ PointerUpStep)
                 => ~Marked(e)'
       ]_vars

\* A touch-end has just deactivated I, whose marker had been applied less
\* than CLEAR_STATE_DEFERS before: the marker is gone already.
C8_Witness ==
  /\ ev.type = "touchend"
  /\ found = [slot |-> "I", pending |-> FALSE]
  /\ now - lastActivated < CLEAR_STATE_DEFERS
  /\ ~Marked("I")
  /\ activatableEle = None

\* ------------------------------------------------------------ C10
\* C10: a click is suppressed (preventDefault and stopPropagation) exactly
\* when cancelled or scrolling is true as it arrives; an accepted
\* pointer-down leaves both false, cancelled becomes true only in
\* cancelActive (scroll-start, gesture-capture) and scrolling only at
\* scroll-start: the click of an undisturbed tap is not suppressed.
C10_ClickSuppressedIffCancelledOrScrolling ==
  [][
      /\ Dispatches("click")
            => /\ ev'.defaultPrevented <=> (cancelled \/ scrolling)
               /\ ev'.propagationStopped <=> (cancelled \/ scrolling)
      /\ (activatableEle = None /\ ~scrolling
            /\ \E e \in Activatable \cup {None} : PointerDownOn(e))
            => ~cancelled' /\ ~scrolling'
      /\ (~cancelled /\ cancelled') => CancelStep
      /\ (~scrolling /\ scrolling') => Dispatches("ionScrollStart")
    ]_vars

\* The click of a tap on A arrives at the instant of its touch-end, while A
\* still fades out: it is delivered.
C10_Witness ==
  /\ ev.type = "click"
  /\ ~ev.defaultPrevented /\ ~ev.propagationStopped
  /\ Marked("A") /\ FadingOut("A")
  /\ lastTouch = now
  /\ activatableEle = None

\* ------------------------------------------------------------ C11
\* The step takes the marker from e.
Unmarks(e) == Marked(e) /\ ~Marked(e)'

\* The marker of e has been on it for CLEAR_STATE_DEFERS time units.
ShownLongEnough(e) == now - markedAt[e] >= CLEAR_STATE_DEFERS

\* The step is a pointer-down on e that pointerDown accepts.
RePress(e) == PointerDownOn(e) /\ activatableEle = None /\ ~scrolling

\* C11 as stated: unless the step calls cancelActive, the marker of a
\* non-instant element is removed only when it has been on the element for
\* at least CLEAR_STATE_DEFERS time units, whatever pointer-down and
\* pointer-up events follow, a new pointer-down on the same element included.
C11_MinimumVisibleDuration ==
  [][\A e \in Activatable :
        ~isInstant(e) /\ Unmarks(e) /\ ~CancelStep => ShownLongEnough(e)]_vars

\* C11, amended: unless the step calls cancelActive or is an accepted
\* pointer-down on the same element (which removes the marker at once, line
\* 108), the marker of a non-instant element is removed only when it has
\* been on the element for at least CLEAR_STATE_DEFERS time units.
C11_MinimumUnlessRePressed ==
  [][\A e \in Activatable :
        ~isInstant(e) /\ Unmarks(e) /\ ~CancelStep /\ ~RePress(e)
          => ShownLongEnough(e)]_vars

\* A short tap has put the marker on A; a pointer-down on B has followed
\* before CLEAR_STATE_DEFERS went by, and A keeps the marker until its
\* deferred-clear timer is due, not before that time is over.
C11_Witness ==
  /\ ev.type = "touchstart"
  /\ activatableEle = "B" /\ PendingActivation("B")
  /\ Marked("A") /\ FadingOut("A")
  /\ markedAt["A"] = now - Tick
  /\ clearDefers["A"].at >= markedAt["A"] + CLEAR_STATE_DEFERS

\* ------------------------------------------------------------ C12
\* The step runs the callback of e's activation timer.
ActivationFires(e) == ev' = NoEvent /\ PendingActivation(e) /\ ~PendingActivation(e)'

\* The step runs the callback of e's deferred-clear timer.
ClearFires(e) == ev' = NoEvent /\ FadingOut(e) /\ ~FadingOut(e)'

\* C12: a ripple is started (addRipple is called, which is the only way
\* activeRipple gets a value) only when both flags 'animated' and
\* 'rippleEffect' are true.  If either flag is false no ripple is ever held
\* and none is disposed of, while the marker is applied and removed as
\* usual: the activation timer of e puts it on e, the pointer-up that ends
\* a short tap on a non-instant e puts it on e, a deferred-clear timer and
\* cancelActive take it away.
C12_RippleOnlyWhenBothFlags ==
  /\ [](activeRipple # None => animated /\ rippleEffect)
  /\ [][~(animated /\ rippleEffect) =>
          /\ activeRipple' = None /\ removeCalls' = 0
          /\ \A e \in Activatable :
               /\ ActivationFires(e) => Marked(e)' /\ lastActivated' = now
               /\ PointerUpStep /\ ~scrolling /\ activatableEle = e /\ ~Marked(e)
                    => Marked(e)' = ~isInstant(e)
               /\ ClearFires(e) => ~Marked(e)'
               /\ CancelStep /\ activatableEle = e => ~Marked(e)']_vars

\* With one flag off, the activation timer has put the marker on A, which
\* hosts a ripple effect, and no ripple was started.
C12_Witness ==
  /\ animated # rippleEffect
  /\ ev = NoEvent
  /\ activatableEle = "A" /\ Marked("A") /\ markedAt["A"] = now
  /\ getRippleEffect("A") # None
  /\ activeRipple = None

\* ------------------------------------------------------------ C16
\* C16: the element in the activating slot has no entry in the
\* deferred-clear registry, and no handler has thrown 'internal error'.
C16_InternalErrorUnreachable ==
  /\ ~thrown
  /\ activatableEle # None => clearDefers[activatableEle] = NoTimer

\* A pointer-up has found A in the slot, passed the consistency check and
\* left A to its deferred-clear timer.
C16_Witness ==
  /\ ev.type = "touchend"
  /\ found.slot = "A"
  /\ ~thrown
  /\ activatableEle = None
  /\ clearDefers["A"] # NoTimer

\* ------------------------------------------------------------ C17
\* C17: no element has a pending activation timer and a pending
\* deferred-clear timer at once; a step that schedules the activation of an
\* element leaves it neither deferred-clear timer nor registry entry, and a
\* step that starts the deferred clear of an element leaves it no
\* activation timer.
C17_TimersOfOneElementExclude ==
  /\ [](\A e \in Activatable : ~(PendingActivation(e) /\ FadingOut(e)))
  /\ [][\A e \in Activatable :
          /\ ~PendingActivation(e) /\ PendingActivation(e)'
               => ~FadingOut(e)' /\ clearDefers'[e] = NoTimer
          /\ ~FadingOut(e) /\ FadingOut(e)'
               => ~PendingActivation(e)' /\ activeDefer' = NoTimer]_vars

\* A pointer-up has found the activation timer of A pending and has started
\* the deferred clear of A.
C17_Witness ==
  /\ ev.type = "mouseup"
  /\ found = [slot |-> "A", pending |-> TRUE]
  /\ FadingOut("A") /\ Marked("A")
  /\ ~PendingActivation("A")

\* ------------------------------------------------------------ C18
\* The pending activation timers.
ActivationTimers == {h \in timers : h.kind = "activate"}

\* C18: at most one activation timer is pending; a pending one is the one
\* activeDefer holds and its target is the element in the slot.  A step
\* that changes the slot leaves no activation timer of the element that
\* owned it, and the callback of an activation timer puts the marker on the
\* element that owns the slot.
C18_NoStaleActivationTimer ==
  /\ [](/\ Cardinality(ActivationTimers) <= 1
        /\ \A h \in ActivationTimers : h = activeDefer /\ h.el = activatableEle)
  /\ [][/\ activatableEle' # activatableEle
             => \A h \in ActivationTimers' : h.el = activatableEle'
        /\ \A e \in Activatable :
             ActivationFires(e) => activatableEle = e /\ activatableEle' = e]_vars

\* A touch-cancel at the instant the activation timer of A was due has
\* found it pending, has cleared it and emptied the slot: no activation
\* timer is left to fire.
C18_Witness ==
  /\ ev.type = "touchcancel"
  /\ found = [slot |-> "A", pending |-> TRUE]
  /\ activatableEle = None
  /\ ActivationTimers = {} /\ activeDefer = NoTimer
  /\ now = ADD_ACTIVATED_DEFERS

\* ------------------------------------------------------------ C20
\* C20: every element that carries the marker is the element in the slot
\* or has its deferred-clear timer registered and pending; when the slot is
\* empty and no timer is pending, no element carries the marker.
C20_NoStuckMarker ==
  /\ \A e \in Activatable :
       Marked(e) => \/ activatableEle = e
                    \/ clearDefers[e] \in timers /\ clearDefers[e].el = e
  /\ activatableEle = None /\ timers = {} => \A e \in Activatable : ~Marked(e)

\* The gesture-captured signal has found B in the slot with the marker
\* (its timer had fired) while A faded out: B has lost the marker with the
\* slot, and A keeps it with its deferred-clear timer.
C20_Witness ==
  /\ ev.type = "ionGestureCaptured"
  /\ found = [slot |-> "B", pending |-> FALSE]
  /\ activatableEle = None
  /\ ~Marked("B")
  /\ Marked("A") /\ FadingOut("A")

\* ------------------------------------------------------------ C19
\* C19 as stated: the disposal function of a ripple is invoked at most once
\* (at the deactivation of the element it was started for), never again by
\* a later removeActivated.
C19_DisposedOnce == removeCalls <= 1

\* ------------------------------------------------------------ C14
\* C14 as stated: every listener is a capturing one, so that the effect of
\* each signal happens at every dispatch of it, whether or not a handler of
\* the application calls stopPropagation: scroll-start sets scrolling and
\* cancels, scroll-end resets scrolling, gesture-captured cancels.
C14_SignalsHeardThoughStopped ==
  [][/\ ev'.type = "ionScrollStart"
          => scrolling' /\ cancelled' /\ activatableEle' = None
     /\ ev'.type = "ionScrollEnd" => ~scrolling'
     /\ ev'.type = "ionGestureCaptured"
          => cancelled' /\ activatableEle' = None]_vars

\* ------------------------------------------------------------ C15
\* The registry holds an entry for e.
Registered(e) == clearDefers[e] # NoTimer

\* C15: the registry holds an entry for an element exactly when a
\* deferred-clear timer for it is pending, and the entry is that timer.
\* Every entry is removed in the end, and only in one of two ways: by its
\* timer firing, which takes the marker from the element too, or by the
\* re-activation of the element, which cancels the timer.  The pointer-up
\* of a short tap on a non-instant e gives e the marker and an entry due
\* CLEAR_STATE_DEFERS later.
C15_NoLeakedDeferredClear ==
  /\ [](\A e \in Activatable :
          /\ Registered(e) <=> FadingOut(e)
          /\ \A h \in timers : h.kind = "clear" /\ h.el = e => h = clearDefers[e])
  /\ \A e \in Activatable : Registered(e) ~> ~Registered(e)
  /\ [][\A e \in Activatable :
          /\ Registered(e) /\ ~Registered(e)'
               => \/ ClearFires(e) /\ ~Marked(e)'
                  \/ RePress(e) /\ ~FadingOut(e)' /\ PendingActivation(e)'
          /\ PointerUpStep /\ ~scrolling /\ activatableEle = e
             /\ PendingActivation(e) /\ ~isInstant(e)
               => /\ Marked(e)'
                  /\ clearDefers'[e] \in timers'
                  /\ clearDefers'[e].at = now + CLEAR_STATE_DEFERS]_vars

\* A was pressed and released at time 0, which started its ripple and
\* disposed of it once; CLEAR_STATE_DEFERS later the smoothing timer has
\* fired: A has lost the marker, no timer is pending, the registry is empty.
C15_Witness ==
  /\ ev = NoEvent
  /\ now = CLEAR_STATE_DEFERS
  /\ lastActivated = 0
  /\ activeRipple = "ripple-A" /\ removeCalls = 1
  /\ activatableEle = None
  /\ ~Marked("A")
  /\ timers = {}
  /\ \A e \in Activatable : ~Registered(e)

\* ------------------------------------------------------------ C13
\* The group's value equals the accordion's value or, if it is an array,
\* contains it.
Matches(v, accordionValue) ==
  IF v.isArray THEN includes(v.items, accordionValue)
  ELSE v.items[1] = accordionValue

\* The step runs updateState with a group: from connectedCallback, or as
\* the listener of the group's ionChange.
UpdateStateRuns ==
  \/ call' = "connectedCallback" /\ accordionGroupEl' # None
  \/ call' = "updateState"

\* toggleExpanded leaves expanded alone; with a group it calls
\* requestAccordionToggle(value, !expanded), without one it does nothing.
\* No other step calls the group, and expanded changes in updateState only.
ToggleOnlyRequests ==
  /\ call' = "toggleExpanded" =>
       /\ expanded' = expanded
       /\ requests' = IF accordionGroupEl # None
                        THEN Append(requests, [value |-> value, expand |-> ~expanded])
                        ELSE requests
  /\ requests' # requests => call' = "toggleExpanded"
  /\ expanded' # expanded => UpdateStateRuns

\* C13 as stated: toggleExpanded only asks the group, and expanded changes
\* only in updateState, which makes it true exactly when the group's value
\* equals the accordion's value or contains it.
C13_ExpandedFollowsGroup ==
  [][/\ ToggleOnlyRequests
     /\ UpdateStateRuns => expanded' = Matches(groupValue', value)]_vars

\* C13, amended: toggleExpanded only asks the group, and expanded changes
\* only in updateState, which makes it true exactly when the group's value
\* equals the accordion's value or contains it, provided the accordion has
\* a value; for an accordion without a value updateState changes nothing.
C13_ExpandedFollowsGroupIfValued ==
  [][/\ ToggleOnlyRequests
     /\ UpdateStateRuns /\ value # None => expanded' = Matches(groupValue', value)
     /\ UpdateStateRuns /\ value = None => expanded' = expanded]_vars

\* The accordion "a" asked its group to expand it, and the ionChange of the
\* group, whose value is now an array that contains "a", has expanded it.
C13_Witness ==
  /\ call = "updateState"
  /\ value = "a"
  /\ requests = <<[value |-> "a", expand |-> TRUE]>>
  /\ groupValue.isArray /\ includes(groupValue.items, "a")
  /\ expanded

====
